---- MODULE Spec2Model ----
(***************************************************************************)
(* A model of KonamiController (packages/controller/src/                   *)
(* konami-controller.ts): a key-sequence matcher attached to the window's  *)
(* keydown events, with an inter-key timeout kept by the host's timer      *)
(* facility (setTimeout / clearTimeout), and the three notifications it    *)
(* dispatches on its host.                                                 *)
(*                                                                         *)
(* JavaScript arrays are 0-indexed: this.code[i] is code[i + 1] here.      *)
(***************************************************************************)
EXTENDS Integers, Sequences, FiniteSets, TLC

(***************************************************************************)
(* Bounds of the model.                                                    *)
(***************************************************************************)
\* Longest custom key sequence passed to the constructor.
MaxCodeLen == 2
\* The log keeps the most recent MaxLog notifications.
MaxLog == 4
\* Granularity of the passage of time, in ms.
TickStep == 500
\* Controllers one konami-reveal element creates in one behaviour.
MaxControllers == 2
\* Nesting of dispatchEvent calls on a konami-reveal element that is followed.
MaxDispatchDepth == 3

(***************************************************************************)
(* Program constants.                                                      *)
(***************************************************************************)
DefaultCode ==
    << "ArrowUp", "ArrowUp", "ArrowDown", "ArrowDown",
       "ArrowLeft", "ArrowRight", "ArrowLeft", "ArrowRight", "b", "a" >>

DefaultTimeout == 2000

\* What an out-of-range array read yields.
Undefined == "undefined"

\* this.timeoutRef before any setTimeout; real timer ids are positive.
NoRef == 0

(***************************************************************************)
(* Inputs.                                                                 *)
(***************************************************************************)
\* Key identifiers a custom sequence is made of.
CustomKeys == {"a", "b"}

\* The custom sequences: every sequence over CustomKeys, the empty one included.
CustomCodes == UNION {[1..n -> CustomKeys] : n \in 0..MaxCodeLen}

\* The timeouts passed to the constructor (ms).
CustomTimeouts == {0, 500, 1000}

\* The options object: a missing member is has... = FALSE.
OptionsSet ==
    { [hasCode |-> hc, code |-> c, hasTimeout |-> ht, timeout |-> t] :
        hc \in BOOLEAN, c \in CustomCodes, ht \in BOOLEAN, t \in CustomTimeouts }

\* undefined members carry no value
WellFormedOptions ==
    { o \in OptionsSet : (~o.hasCode => o.code = <<>>) /\ (~o.hasTimeout => o.timeout = 0) }

Range(s) == {s[i] : i \in DOMAIN s}

Min(S) == CHOOSE x \in S : \A y \in S : x <= y

VARIABLES
    options,            \* the options the constructor was called with
    code,               \* this.code
    timeout,            \* this.timeout
    currentPosition,    \* this.currentPosition
    timeoutRef,         \* this.timeoutRef
    listening,          \* handleKeydown is a keydown listener of window
    timers,             \* the host's pending timers: {[id, left]}, left in ms
    log,                \* the most recent notifications dispatched on the host
    last,               \* the operation that produced this state
    feed,               \* the in-order delivery of the sequence under way
    reveal,             \* a konami-reveal element and the controllers it made
    rlast,              \* the operation on the element that produced this state
    demo,               \* a konami-demo element and its controller
    dlast               \* the operation on the demo that produced this state

\* the controller on a plain host
cvars == << currentPosition, timeoutRef, listening, timers, log, last, feed >>

\* the konami-reveal element
rvars == << reveal, rlast >>

\* the konami-demo element
dvars == << demo, dlast >>

vars == << options, code, timeout, currentPosition, timeoutRef, listening, timers,
           log, last, feed, reveal, rlast, demo, dlast >>

(***************************************************************************)
(* The mutable program state handed through the operators below; out is    *)
(* what the operation under way has dispatched on the host so far.         *)
(* detachOn is the notification on which a listener of the host calls      *)
(* hostDisconnected (NoListener: on none), detached what that call found:  *)
(* <<>>, or the number of notifications dispatched and the cursor then.    *)
(***************************************************************************)
NoListener == "none"

State ==
    [ currentPosition |-> currentPosition,
      timeoutRef      |-> timeoutRef,
      listening       |-> listening,
      timers          |-> timers,
      out             |-> <<>>,
      detachOn        |-> NoListener,
      detached        |-> <<>>,
      queried         |-> <<>> ]

(***************************************************************************)
(* The host's timer facility.                                              *)
(***************************************************************************)
\* clearTimeout(ref): the timer with that id, if pending, is dropped;
\* an undefined or stale ref drops nothing.
clearTimeout(ts, ref) == {t \in ts : t.id # ref}

\* The id setTimeout returns: one no pending timer has.
FreshTimerId(ts) ==
    Min({i \in 1..(Cardinality(ts) + 1) : \A t \in ts : t.id # i})

\* setTimeout(callback, delay), the callback being () => this.reset().
setTimeout(ts, id, delay) == ts \cup {[id |-> id, left |-> delay]}

(***************************************************************************)
(* constructor                                                             *)
(***************************************************************************)
\* options?.code || [the ten keys]: an array, even an empty one, is truthy.
constructorCode(o) == IF o.hasCode THEN o.code ELSE DefaultCode

\* the timeout taken as given whenever the member is there
constructorTimeout_asGiven(o) ==
    IF o.hasTimeout THEN o.timeout ELSE DefaultTimeout

\* options?.timeout || 2000: undefined and 0 are falsy.
constructorTimeout(o) ==
    IF o.hasTimeout /\ o.timeout # 0 THEN o.timeout ELSE DefaultTimeout

(***************************************************************************)
(* Queries                                                                 *)
(***************************************************************************)
\* this.code[i]
codeAt(i) == IF (i + 1) \in DOMAIN code THEN code[i + 1] ELSE Undefined

progress == currentPosition

total == Len(code)

nextExpectedKey == codeAt(currentPosition)

(***************************************************************************)
(* hostConnected / hostDisconnected                                        *)
(***************************************************************************)
\* addEventListener with a listener already registered adds nothing.
hostConnected(s) == [s EXCEPT !.listening = TRUE]

\* hostDisconnected that releases the subscription only
hostDisconnected_keepsTimer(s) == [s EXCEPT !.listening = FALSE]

\* hostDisconnected written as a toggle of the subscription
hostDisconnected_toggles(s) ==
    [s EXCEPT !.listening = ~@,
              !.timers = clearTimeout(@, s.timeoutRef)]

\* removeEventListener of an unregistered listener and clearTimeout of an
\* undefined or stale id are no-ops of the platform.
hostDisconnected(s) ==
    [s EXCEPT !.listening = FALSE,
              !.timers = clearTimeout(@, s.timeoutRef)]

(***************************************************************************)
(* emit: dispatch a CustomEvent on the host.  detail is <<>> for void.     *)
(* dispatchEvent runs the host's listeners before it returns.              *)
(***************************************************************************)
\* A listener reads the getters progress and nextExpectedKey first.
runListeners(s, eventName) ==
    LET s1 == [s EXCEPT !.queried =
                  Append(@, [progress |-> s.currentPosition,
                             nextExpectedKey |-> codeAt(s.currentPosition)])]
    IN  IF s.detachOn = eventName /\ s.detached = <<>>
        THEN [hostDisconnected(s1) EXCEPT
                !.detached = << [at |-> Len(s.out), cursor |-> s.currentPosition] >>]
        ELSE s1

emit(s, eventName, detail) ==
    runListeners(
        [s EXCEPT !.out = Append(@, [type |-> eventName, detail |-> detail])],
        eventName)

(***************************************************************************)
(* reset                                                                   *)
(***************************************************************************)
\* reset that forgets to move the cursor back
reset_keepsPosition(s) ==
    LET isPartial == s.currentPosition > 0
        s2 == [s EXCEPT !.timers = clearTimeout(@, s.timeoutRef)]
    IN  IF isPartial THEN emit(s2, "konami-reset", <<>>) ELSE s2

\* reset that leaves the timer running
reset_keepsTimer(s) ==
    LET isPartial == s.currentPosition > 0
        s1 == [s EXCEPT !.currentPosition = 0]
    IN  IF isPartial THEN emit(s1, "konami-reset", <<>>) ELSE s1

\* reset that tells nobody
reset_silent(s) ==
    LET s1 == [s EXCEPT !.currentPosition = 0]
    IN  [s1 EXCEPT !.timers = clearTimeout(@, s1.timeoutRef)]

reset(s) ==
    LET isPartial == s.currentPosition > 0
        s1 == [s EXCEPT !.currentPosition = 0]
        s2 == [s1 EXCEPT !.timers = clearTimeout(@, s1.timeoutRef)]
    IN  IF isPartial THEN emit(s2, "konami-reset", <<>>) ELSE s2

(***************************************************************************)
(* handleKeydown                                                           *)
(***************************************************************************)
\* the detail built before the cursor moved
progressDetail_stale(s) ==
    << [position |-> s.currentPosition - 1, total |-> Len(code)] >>

\* the detail of konami-progress
progressDetail(s) == << [position |-> s.currentPosition, total |-> Len(code)] >>

\* a new timer scheduled without cancelling the one before
restartTimer_keepsOld(s) ==
    LET id == FreshTimerId(s.timers)
    IN  [s EXCEPT !.timers = setTimeout(@, id, timeout), !.timeoutRef = id]

\* clearTimeout(this.timeoutRef); this.timeoutRef = setTimeout(..., this.timeout)
restartTimer(s) ==
    LET s1 == [s EXCEPT !.timers = clearTimeout(@, s.timeoutRef)]
        id == FreshTimerId(s1.timers)
    IN  [s1 EXCEPT !.timers = setTimeout(@, id, timeout), !.timeoutRef = id]

\* handleKeydown without the guard on e.repeat
handleKeydown_countsRepeats(s, e) ==
    LET expected == codeAt(s.currentPosition) IN
    IF e.key # expected THEN reset(s)
    ELSE
      LET s1 == [s EXCEPT !.currentPosition = @ + 1]
          s2 == restartTimer(s1)
          s3 == emit(s2, "konami-progress", progressDetail(s2))
      IN  IF s3.currentPosition = Len(code)
          THEN reset(emit(s3, "konami-activated", <<>>))
          ELSE s3

\* handleKeydown that announces the activation before the last progress
handleKeydown_activatesFirst(s, e) ==
    IF e.repeat THEN s
    ELSE
      LET expected == codeAt(s.currentPosition) IN
      IF e.key # expected THEN reset(s)
      ELSE
        LET s1 == [s EXCEPT !.currentPosition = @ + 1]
            s2 == restartTimer(s1)
        IN  IF s2.currentPosition = Len(code)
            THEN reset(emit(emit(s2, "konami-activated", <<>>),
                            "konami-progress", progressDetail(s2)))
            ELSE emit(s2, "konami-progress", progressDetail(s2))

\* handleKeydown that takes a mismatching first key as the start of a new
\* attempt
handleKeydown_restartsAttempt(s, e) ==
    IF e.repeat THEN s
    ELSE
      LET expected == codeAt(s.currentPosition)
          s0 == IF e.key # expected /\ e.key = codeAt(0) THEN reset(s) ELSE s
      IN
      IF e.key # codeAt(s0.currentPosition) THEN reset(s0)
      ELSE
        LET s1 == [s0 EXCEPT !.currentPosition = @ + 1]
            s2 == restartTimer(s1)
            s3 == emit(s2, "konami-progress", progressDetail(s2))
        IN  IF s3.currentPosition = Len(code)
            THEN reset(emit(s3, "konami-activated", <<>>))
            ELSE s3

handleKeydown(s, e) ==
    IF e.repeat THEN s
    ELSE
      LET expected == codeAt(s.currentPosition) IN
      IF e.key # expected THEN reset(s)
      ELSE
        LET s1 == [s EXCEPT !.currentPosition = @ + 1]
            s2 == restartTimer(s1)
            s3 == emit(s2, "konami-progress", progressDetail(s2))
        IN  IF s3.currentPosition = Len(code)
            THEN reset(emit(s3, "konami-activated", <<>>))
            ELSE s3

(***************************************************************************)
(* Bookkeeping of the environment: what was done last and what it          *)
(* dispatched, and the delivery of the target sequence under way.          *)
(***************************************************************************)
NoKey == "-"

Pre == [ currentPosition |-> currentPosition, timeoutRef |-> timeoutRef,
         listening |-> listening, timers |-> timers ]

\* The operation, its input, the state it started in, what it dispatched.
Op(name, key, repeat, s) ==
    [op |-> name, key |-> key, repeat |-> repeat, pre |-> Pre, out |-> s.out,
     detached |-> s.detached, queried |-> s.queried]

\* The last n elements of a sequence.
LastN(q, n) == IF Len(q) <= n THEN q ELSE SubSeq(q, Len(q) - n + 1, Len(q))

\* How many notifications of that type a sequence holds.
Count(q, type) == Cardinality({i \in DOMAIN q : q[i].type = type})

\* feed.n keys of the sequence have been delivered in order to the attached
\* controller, the first at cursor 0, with nothing but repeats and waiting
\* in between; feed.activated konami-activated were dispatched meanwhile.
NoFeed == [n |-> 0, activated |-> 0]

feedAfterKey(e, s) ==
    IF ~listening \/ e.repeat THEN feed
    ELSE IF feed.n \in 1..(Len(code) - 1) /\ e.key = code[feed.n + 1]
         THEN [n |-> feed.n + 1,
               activated |-> feed.activated + Count(s.out, "konami-activated")]
    ELSE IF currentPosition = 0 /\ Len(code) > 0 /\ e.key = code[1]
         THEN [n |-> 1, activated |-> Count(s.out, "konami-activated")]
    ELSE NoFeed

Commit(s) ==
    /\ currentPosition' = s.currentPosition
    /\ timeoutRef' = s.timeoutRef
    /\ listening' = s.listening
    /\ timers' = s.timers
    /\ log' = LastN(log \o s.out, MaxLog)

(***************************************************************************)
(* The konami-reveal element.                                              *)
(***************************************************************************)
\* The timeout property of the element: its default and one other value.
RevealTimeouts == {DefaultTimeout, 1000}

\* The code and timeout properties, as connectedCallback passes them on.
RevealOptions ==
    { o \in [hasCode : BOOLEAN, code : CustomCodes, hasTimeout : {TRUE},
             timeout : RevealTimeouts] : ~o.hasCode => o.code = <<>> }

\* The element after construction. seen lists the events dispatched on the
\* element during the operation under way; overflow tells that a
\* dispatchEvent nested deeper than MaxDispatchDepth.
NewReveal ==
    [connected |-> FALSE, subscribed |-> FALSE, activated |-> FALSE,
     controllers |-> <<>>, timers |-> {}, seen |-> <<>>, overflow |-> FALSE]

\* The event emit dispatches for a notification.
CustomEvent(n) ==
    [type |-> n.type, detail |-> n.detail, bubbles |-> FALSE, composed |-> FALSE]

\* The copy handleProgress and handleReset dispatch.
Redispatched(type, detail) ==
    [type |-> type, detail |-> detail, bubbles |-> TRUE, composed |-> TRUE]

\* The events a page dispatches on the element itself, as the tests do.
ExternalEvents ==
    { [type |-> ty, detail |-> IF ty = "konami-progress"
                               THEN << [position |-> 5, total |-> 10] >> ELSE <<>>,
       bubbles |-> b, composed |-> c] :
        ty \in {"konami-progress", "konami-activated", "konami-reset"},
        b \in BOOLEAN, c \in BOOLEAN }

RECURSIVE dispatchEvent(_, _, _)

reveal_handleActivated(el) == [el EXCEPT !.activated = TRUE]

reveal_handleProgress_always(el, ev, depth) ==
    dispatchEvent(el, Redispatched("konami-progress", ev.detail), depth + 1)

reveal_handleProgress(el, ev, depth) ==
    IF ~ev.composed
    THEN dispatchEvent(el, Redispatched("konami-progress", ev.detail), depth + 1)
    ELSE el

reveal_handleReset_deactivates(el, ev, depth) ==
    IF ~ev.composed
    THEN dispatchEvent([el EXCEPT !.activated = FALSE],
                       Redispatched("konami-reset", <<>>), depth + 1)
    ELSE el

reveal_handleReset(el, ev, depth) ==
    IF ~ev.composed
    THEN dispatchEvent(el, Redispatched("konami-reset", <<>>), depth + 1)
    ELSE el

\* this.dispatchEvent(ev): the listeners the element registered on itself
\* run synchronously.
dispatchEvent(el, ev, depth) ==
    IF depth > MaxDispatchDepth THEN [el EXCEPT !.overflow = TRUE]
    ELSE LET el1 == [el EXCEPT !.seen = Append(@, ev)] IN
         IF ~el1.subscribed THEN el1
         ELSE IF ev.type = "konami-activated" THEN reveal_handleActivated(el1)
         ELSE IF ev.type = "konami-progress" THEN reveal_handleProgress(el1, ev, depth)
         ELSE IF ev.type = "konami-reset" THEN reveal_handleReset(el1, ev, depth)
         ELSE el1

\* Controller i of the element as the controller's operations see it. Timer
\* ids are unique, so a controller can only clear timers it created:
\* each controller sees its own timers.
controllerOf(el, i) ==
    [currentPosition |-> el.controllers[i].currentPosition,
     timeoutRef |-> el.controllers[i].timeoutRef,
     listening |-> el.controllers[i].listening,
     timers |-> {[id |-> t.id, left |-> t.left] : t \in {u \in el.timers : u.owner = i}},
     out |-> <<>>, detachOn |-> NoListener, detached |-> <<>>, queried |-> <<>>]

RECURSIVE deliver(_, _, _)
\* The notifications q[k..] of a controller reach the element in order.
deliver(el, q, k) ==
    IF k > Len(q) THEN el
    ELSE deliver(dispatchEvent(el, CustomEvent(q[k]), 1), q, k + 1)

\* Controller i has run an operation that left it as s.
controllerRan(el, i, s) ==
    deliver([el EXCEPT
               !.controllers[i] = [currentPosition |-> s.currentPosition,
                                   timeoutRef |-> s.timeoutRef,
                                   listening |-> s.listening],
               !.timers = {u \in @ : u.owner # i} \cup
                          {[owner |-> i, id |-> t.id, left |-> t.left] : t \in s.timers}],
            s.out, 1)

RECURSIVE forEachController(_, _, _)
\* ReactiveElement calls the named callback of its controllers i.. in order.
forEachController(el, callback, i) ==
    IF i > Len(el.controllers) THEN el
    ELSE LET s == IF callback = "hostConnected"
                  THEN hostConnected(controllerOf(el, i))
                  ELSE hostDisconnected(controllerOf(el, i))
         IN forEachController(controllerRan(el, i, s), callback, i + 1)

\* new KonamiController(this, ...): addController calls hostConnected at
\* once, the element being connected.
newController(el) ==
    LET el1 == [el EXCEPT !.controllers =
                    Append(@, [currentPosition |-> 0, timeoutRef |-> NoRef,
                               listening |-> FALSE])]
        i == Len(el1.controllers)
    IN  IF el1.connected
        THEN controllerRan(el1, i, hostConnected(controllerOf(el1, i)))
        ELSE el1

reveal_connectedCallback(el) ==
    LET el1 == forEachController([el EXCEPT !.connected = TRUE], "hostConnected", 1)
        el2 == newController(el1)
    IN  [el2 EXCEPT !.subscribed = TRUE]

reveal_disconnectedCallback(el) ==
    LET el1 == forEachController([el EXCEPT !.connected = FALSE], "hostDisconnected", 1)
    IN  [el1 EXCEPT !.subscribed = FALSE]

reveal_reset_resetsController(el) ==
    LET i == Len(el.controllers) IN
      IF i = 0 THEN [el EXCEPT !.activated = FALSE]
      ELSE controllerRan([el EXCEPT !.activated = FALSE], i, reset(controllerOf(el, i)))

reveal_reset(el) == [el EXCEPT !.activated = FALSE]

RECURSIVE windowKeydown(_, _, _)
\* window dispatches a keydown event to the handleKeydown listeners i..
\* registered on it.
windowKeydown(el, e, i) ==
    IF i > Len(el.controllers) THEN el
    ELSE windowKeydown(
           IF el.controllers[i].listening
           THEN controllerRan(el, i, handleKeydown(controllerOf(el, i), e))
           ELSE el,
           e, i + 1)

\* The operation on the element: its name and input, the element before
\* it and the events dispatched on the element during it.
ROp(name, key, repeat, pre, el) ==
    [op |-> name, key |-> key, repeat |-> repeat,
     pre |-> [pre EXCEPT !.seen = <<>>], seen |-> el.seen]

RCommit(name, key, repeat, el) ==
    /\ reveal' = [el EXCEPT !.seen = <<>>]
    /\ rlast' = ROp(name, key, repeat, reveal, el)
    /\ UNCHANGED << options, code, timeout, cvars, dvars >>

(***************************************************************************)
(* The konami-demo element.                                                *)
(***************************************************************************)
\* The delay of the feedback timer, in ms.
FeedbackDelay == 2000

\* The options the demo constructs its controller with.
DemoOptions == [hasCode |-> FALSE, code |-> <<>>, hasTimeout |-> TRUE, timeout |-> 2000]

\* The element after construction: its controller is a field initializer;
\* the element not being connected, addController attaches nothing.
\* feedbackTimeout holds the pending feedback timer, if any, with the type
\* its callback closes over.
NewDemo ==
    [connected |-> FALSE, subscribed |-> FALSE, activated |-> FALSE,
     progress |-> 0, feedbackMessage |-> "", feedbackType |-> "",
     showFeedback |-> FALSE, containerState |-> "normal",
     feedbackTimeout |-> {},
     currentPosition |-> 0, timeoutRef |-> NoRef, listening |-> FALSE,
     timers |-> {}]

demo_showTemporaryFeedback(d, message, type) ==
    [d EXCEPT !.feedbackMessage = message,
              !.feedbackType = type,
              !.showFeedback = TRUE,
              !.containerState = type,
              !.feedbackTimeout = {[left |-> FeedbackDelay, type |-> type]}]

\* the callback of the feedback timer
demo_feedbackExpired(d, type) ==
    [d EXCEPT !.showFeedback = FALSE,
              !.containerState = IF type # "success" THEN "normal" ELSE @]

demo_handleActivated(d) ==
    demo_showTemporaryFeedback([d EXCEPT !.activated = TRUE], "SUCCESS", "success")

demo_handleProgress(d, detail) ==
    LET d1 == [d EXCEPT !.progress = detail[1].position] IN
      IF d1.containerState \in {"error", "timeout"}
      THEN [d1 EXCEPT !.containerState = "normal", !.showFeedback = FALSE]
      ELSE d1

demo_handleReset(d) ==
    LET wasInProgress == d.progress > 0
        d1 == [d EXCEPT !.progress = 0]
    IN  IF wasInProgress
        THEN demo_showTemporaryFeedback(d1, "Sorry", "timeout")
        ELSE d1

\* reset, the click handler of the Try Again button
demo_reset(d) ==
    [d EXCEPT !.activated = FALSE,
              !.progress = 0,
              !.showFeedback = FALSE,
              !.containerState = "normal",
              !.feedbackMessage = ""]

\* An event dispatched on the demo by its controller reaches the listener
\* the demo registered for it.
demo_dispatchEvent(d, n) ==
    IF ~d.subscribed THEN d
    ELSE IF n.type = "konami-activated" THEN demo_handleActivated(d)
    ELSE IF n.type = "konami-progress" THEN demo_handleProgress(d, n.detail)
    ELSE IF n.type = "konami-reset" THEN demo_handleReset(d)
    ELSE d

RECURSIVE demo_deliver(_, _, _)
demo_deliver(d, q, k) ==
    IF k > Len(q) THEN d
    ELSE demo_deliver(demo_dispatchEvent(d, q[k]), q, k + 1)

\* The demo's controller as the controller's operations see it.
demo_konami(d) ==
    [currentPosition |-> d.currentPosition, timeoutRef |-> d.timeoutRef,
     listening |-> d.listening, timers |-> d.timers,
     out |-> <<>>, detachOn |-> NoListener, detached |-> <<>>, queried |-> <<>>]

\* The demo's controller has run an operation that left it as s.
demo_konamiRan(d, s) ==
    demo_deliver([d EXCEPT !.currentPosition = s.currentPosition,
                           !.timeoutRef = s.timeoutRef,
                           !.listening = s.listening,
                           !.timers = s.timers],
                 s.out, 1)

demo_connectedCallback(d) ==
    LET d1 == demo_konamiRan([d EXCEPT !.connected = TRUE],
                             hostConnected(demo_konami(d)))
    IN  [d1 EXCEPT !.subscribed = TRUE]

demo_disconnectedCallback(d) ==
    LET d1 == demo_konamiRan([d EXCEPT !.connected = FALSE],
                             hostDisconnected(demo_konami(d)))
    IN  [d1 EXCEPT !.subscribed = FALSE, !.feedbackTimeout = {}]

\* The operation on the demo: its name and input, the demo before it and
\* the notifications its controller dispatched during it.
DOp(name, key, repeat, pre, out) ==
    [op |-> name, key |-> key, repeat |-> repeat, pre |-> pre, out |-> out]

DCommit(name, key, repeat, d, out) ==
    /\ demo' = d
    /\ dlast' = DOp(name, key, repeat, demo, out)
    /\ UNCHANGED << options, code, timeout, cvars, rvars >>

(***************************************************************************)
(* Specification                                                           *)
(***************************************************************************)
Init ==
    /\ options \in WellFormedOptions
    /\ code = constructorCode(options)
    /\ timeout = constructorTimeout(options)
    /\ currentPosition = 0
    /\ timeoutRef = NoRef
    /\ listening = FALSE
    /\ timers = {}
    /\ log = <<>>
    /\ last = [op |-> "new", key |-> NoKey, repeat |-> FALSE,
               pre |-> [currentPosition |-> 0, timeoutRef |-> NoRef,
                        listening |-> FALSE, timers |-> {}],
               out |-> <<>>, detached |-> <<>>, queried |-> <<>>]
    /\ feed = NoFeed
    /\ reveal = NewReveal
    /\ rlast = ROp("new", NoKey, FALSE, NewReveal, NewReveal)
    /\ demo = NewDemo
    /\ dlast = DOp("new", NoKey, FALSE, NewDemo, <<>>)

\* The keys that can be pressed: those of the sequence and one foreign key.
Keys == Range(code) \cup {"x"}

\* What the host's listeners do in one turn: nothing to the controller, or
\* hostDisconnected on the first notification of one type.
Listeners ==
    {NoListener, "konami-progress", "konami-activated", "konami-reset"}

HostConnected ==
    LET s == hostConnected(State) IN
        /\ Commit(s)
        /\ last' = Op("hostConnected", NoKey, FALSE, s)
        /\ UNCHANGED << rvars, dvars, options, code, timeout, feed >>

HostDisconnected ==
    LET s == hostDisconnected(State) IN
        /\ Commit(s)
        /\ last' = Op("hostDisconnected", NoKey, FALSE, s)
        /\ feed' = NoFeed
        /\ UNCHANGED << rvars, dvars, options, code, timeout >>

\* window dispatches a keydown event: handleKeydown runs if it is registered.
Keydown ==
    \E k \in Keys, r \in BOOLEAN :
    \E d \in IF listening /\ ~r THEN Listeners ELSE {NoListener} :
      LET e == [key |-> k, repeat |-> r]
          s == IF listening
               THEN handleKeydown([State EXCEPT !.detachOn = d], e)
               ELSE State
      IN  /\ Commit(s)
          /\ last' = Op("keydown", k, r, s)
          /\ feed' = IF s.detached # <<>> THEN NoFeed ELSE feedAfterKey(e, s)
          /\ UNCHANGED << rvars, dvars, options, code, timeout >>

\* The getters progress, total and nextExpectedKey are read; last.key is
\* the key nextExpectedKey returned.
Query ==
    /\ last' = Op("query", nextExpectedKey, FALSE, State)
    /\ UNCHANGED << rvars, dvars, options, code, timeout, currentPosition, timeoutRef, listening,
                    timers, log, feed >>

\* Time passes, up to the next deadline; an expired timer runs first.
Tick ==
    /\ \A t \in timers : t.left > 0
    /\ LET d == Min({TickStep} \cup {t.left : t \in timers}) IN
         timers' = {[t EXCEPT !.left = @ - d] : t \in timers}
    /\ last' = Op("tick", NoKey, FALSE, State)
    /\ UNCHANGED << rvars, dvars, options, code, timeout, currentPosition, timeoutRef, listening,
                    log, feed >>

\* An expired timer runs its callback, () => this.reset(), once.
TimerFire ==
    \E t \in timers, d \in Listeners :
      LET s == reset([State EXCEPT !.timers = @ \ {t}, !.detachOn = d]) IN
        /\ t.left = 0
        /\ Commit(s)
        /\ last' = Op("timeout", NoKey, FALSE, s)
        /\ feed' = NoFeed
        /\ UNCHANGED << rvars, dvars, options, code, timeout >>

Next ==
    \/ HostConnected
    \/ HostDisconnected
    \/ Keydown
    \/ Query
    \/ Tick
    \/ TimerFire

Spec == Init /\ [][Next]_vars

\* The host's timer facility at work: time passes and an expired timer
\* runs its callback. Nothing obliges a user to press keys or a host to
\* attach or detach.
Fairness == WF_vars(Tick) /\ WF_vars(TimerFire)

LiveSpec == Init /\ [][Next]_vars /\ Fairness

(***************************************************************************)
(* Specification of the konami-reveal element                              *)
(***************************************************************************)
RevealInit ==
    /\ options \in RevealOptions
    /\ code = constructorCode(options)
    /\ timeout = constructorTimeout(options)
    /\ currentPosition = 0
    /\ timeoutRef = NoRef
    /\ listening = FALSE
    /\ timers = {}
    /\ log = <<>>
    /\ last = [op |-> "new", key |-> NoKey, repeat |-> FALSE,
               pre |-> [currentPosition |-> 0, timeoutRef |-> NoRef,
                        listening |-> FALSE, timers |-> {}],
               out |-> <<>>, detached |-> <<>>, queried |-> <<>>]
    /\ feed = NoFeed
    /\ reveal = NewReveal
    /\ rlast = ROp("new", NoKey, FALSE, NewReveal, NewReveal)
    /\ demo = NewDemo
    /\ dlast = DOp("new", NoKey, FALSE, NewDemo, <<>>)

\* The element is inserted into a document.
RevealConnected ==
    /\ ~reveal.connected
    /\ Len(reveal.controllers) < MaxControllers
    /\ RCommit("connectedCallback", NoKey, FALSE, reveal_connectedCallback(reveal))

\* The element is removed from its document.
RevealDisconnected ==
    /\ reveal.connected
    /\ RCommit("disconnectedCallback", NoKey, FALSE, reveal_disconnectedCallback(reveal))

RevealKeydown ==
    \E k \in Keys, r \in BOOLEAN :
      RCommit("keydown", k, r, windowKeydown(reveal, [key |-> k, repeat |-> r], 1))

\* The page dispatches an event of its own on the element.
RevealDispatch ==
    \E ev \in ExternalEvents :
      RCommit("dispatchEvent", NoKey, FALSE, dispatchEvent(reveal, ev, 1))

\* The page calls reset() on the element.
RevealReset ==
    /\ RCommit("reset", NoKey, FALSE, reveal_reset(reveal))

RevealTick ==
    /\ reveal.timers # {}
    /\ \A t \in reveal.timers : t.left > 0
    /\ LET d == Min({TickStep} \cup {t.left : t \in reveal.timers}) IN
         RCommit("tick", NoKey, FALSE,
                 [reveal EXCEPT !.timers = {[t EXCEPT !.left = @ - d] : t \in @}])

\* An expired timer runs its controller's reset().
RevealTimerFire ==
    \E t \in reveal.timers :
      /\ t.left = 0
      /\ LET s == reset([controllerOf(reveal, t.owner) EXCEPT
                           !.timers = @ \ {[id |-> t.id, left |-> t.left]}])
         IN RCommit("timeout", NoKey, FALSE, controllerRan(reveal, t.owner, s))

RevealNext ==
    \/ RevealConnected
    \/ RevealDisconnected
    \/ RevealKeydown
    \/ RevealDispatch
    \/ RevealReset
    \/ RevealTick
    \/ RevealTimerFire

RevealSpec == RevealInit /\ [][RevealNext]_vars

(***************************************************************************)
(* What the last operation was.                                            *)
(***************************************************************************)
\* handleKeydown ran on a non-repeat event
KeyHandled == last.op = "keydown" /\ last.pre.listening /\ ~last.repeat

\* ... whose key was the one expected at the cursor
CorrectKey == KeyHandled /\ last.key = codeAt(last.pre.currentPosition)

\* ... whose key was another one
WrongKey == KeyHandled /\ last.key # codeAt(last.pre.currentPosition)

\* ... whose key completed the sequence
FinalKey == CorrectKey /\ last.pre.currentPosition + 1 = Len(code)

RepeatKey == last.op = "keydown" /\ last.repeat

TimedOut == last.op = "timeout"

Resets(q) == Count(q, "konami-reset")

ResetEvent == [type |-> "konami-reset", detail |-> <<>>]

ProgressEvent(p) ==
    [type |-> "konami-progress",
     detail |-> << [position |-> p, total |-> Len(code)] >>]

IsProgress(n) == n.type = "konami-progress"

(***************************************************************************)
(* Claims                                                                  *)
(***************************************************************************)

\* C1: once the keys of a non-empty sequence have been delivered in order
\* as non-repeat keydown events to an attached controller that started at
\* cursor 0, no timeout expiring in between, exactly one konami-activated
\* has been dispatched and the progress query is 0.
C1_FullSequenceActivatesOnce ==
    (Len(code) > 0 /\ feed.n = Len(code)) =>
        (feed.activated = 1 /\ progress = 0)

\* the ten default keys have just been delivered in order
C1_Witness ==
    /\ code = DefaultCode
    /\ feed.n = Len(code)
    /\ FinalKey

\* C2 (as claimed): a konami-reset is dispatched only by a wrong key or a
\* timeout at cursor > 0, never by the key that completes the sequence.
C2_ResetOnlyOnAbandon ==
    Resets(last.out) > 0 =>
        ((WrongKey \/ TimedOut) /\ last.pre.currentPosition > 0)

\* C3: a wrong non-repeat key dispatches nothing at cursor 0; at cursor > 0
\* it dispatches exactly one konami-reset and nothing else, leaves the
\* cursor at 0 and no timer pending.
C3_WrongKey ==
    WrongKey =>
        /\ currentPosition = 0
        /\ IF last.pre.currentPosition = 0
           THEN last.out = <<>>
           ELSE /\ last.out = << ResetEvent >>
                /\ timers = {}

\* a wrong key arrived while an attempt's timer was pending
C3_Witness ==
    /\ WrongKey
    /\ last.pre.currentPosition > 0
    /\ last.pre.timers # {}

\* C4: a keydown event with repeat = true changes neither the cursor nor
\* the pending timer and its deadline nor the subscription, and dispatches
\* nothing, whatever its key and whatever the cursor.
C4_RepeatIgnored ==
    RepeatKey =>
        /\ currentPosition = last.pre.currentPosition
        /\ timeoutRef = last.pre.timeoutRef
        /\ timers = last.pre.timers
        /\ listening = last.pre.listening
        /\ last.out = <<>>

\* a repeat of the expected key, handled in the middle of an attempt
C4_Witness ==
    /\ RepeatKey
    /\ last.pre.listening
    /\ last.pre.currentPosition > 0
    /\ last.key = codeAt(last.pre.currentPosition)
    /\ timers # {}

\* C5: a correct key that leaves the cursor at c, 0 < c < N, and the
\* controller attached leaves one
\* timer pending with the configured timeout to run; when the timer of such
\* an attempt expires, its callback dispatches exactly one konami-reset, the
\* cursor becomes 0, nextExpectedKey is the first key, and no timer is left
\* to fire again.
C5_TimeoutResets ==
    /\ (CorrectKey /\ ~FinalKey /\ listening) =>
          timers = {[id |-> timeoutRef, left |-> timeout]}
    /\ (TimedOut /\ last.pre.currentPosition \in 1..(Len(code) - 1)) =>
          /\ \E t \in last.pre.timers : t.left = 0
          /\ last.out = << ResetEvent >>
          /\ currentPosition = 0
          /\ nextExpectedKey = code[1]
          /\ timers = {}

\* the timer of an attempt two keys long has fired
C5_Witness ==
    /\ TimedOut
    /\ last.pre.listening
    /\ last.pre.currentPosition = 2
    /\ Len(code) > 2

\* C6 (as claimed): a correct key that arrives while a timer is pending
\* dispatches no konami-reset, and unless it completes the sequence it
\* leaves exactly one timer pending, the one it scheduled, with the full
\* timeout to run; a timer that fired is no longer pending.
C6_CorrectKeyRestartsTimer ==
    /\ (CorrectKey /\ last.pre.timers # {}) =>
          /\ Resets(last.out) = 0
          /\ ~FinalKey => timers = {[id |-> timeoutRef, left |-> timeout]}
    /\ TimedOut => timers = {}

\* An operation that starts on a detached controller (a key press, the
\* passage of time, an expired timer, a second detach, the attach itself)
\* dispatches no notification.
C7_SilentWhenDetached ==
    ~last.pre.listening => last.out = <<>>

\* time passes on a controller detached in the middle of an attempt
C7_Witness ==
    /\ last.op = "tick"
    /\ ~last.pre.listening
    /\ currentPosition > 0
    /\ timeoutRef # NoRef

\* C7 (as claimed): once hostDisconnected has been called, by the host or
\* by a listener in the middle of an operation, no notification is
\* dispatched until the controller is attached again.
C7_SilentOnceDetached ==
    /\ C7_SilentWhenDetached
    /\ \A i \in DOMAIN last.detached :
          SubSeq(last.out, last.detached[i].at + 1, Len(last.out)) = <<>>

\* C8: hostDisconnected on a controller that is not attached (never
\* attached, or already detached) dispatches nothing and changes nothing,
\* and after any hostDisconnected the controller is detached with no timer
\* left to dispatch anything later.
C8_DetachIdempotent ==
    last.op = "hostDisconnected" =>
        /\ last.out = <<>>
        /\ ~listening
        /\ timers = {}
        /\ ~last.pre.listening =>
              /\ currentPosition = last.pre.currentPosition
              /\ timeoutRef = last.pre.timeoutRef
              /\ timers = last.pre.timers

\* hostDisconnected called a second time, in the middle of an attempt
C8_Witness ==
    /\ last.op = "hostDisconnected"
    /\ ~last.pre.listening
    /\ currentPosition > 0

\* C9 (as claimed): no controller with an empty sequence handles a key event.
C9_EmptyCodeRejected ==
    ~(Len(code) = 0 /\ last.op = "keydown" /\ last.pre.listening)

\* C10: a correct non-repeat key dispatches exactly one konami-progress,
\* first, with position = the cursor after the increment (in 1..total) and
\* total = the length of the sequence; nothing else dispatches one; and in
\* the log a konami-progress has position 1 or follows the konami-progress
\* with the position before.
C10_ProgressPayload ==
    /\ CorrectKey =>
          /\ Count(last.out, "konami-progress") = 1
          /\ last.out[1] = ProgressEvent(last.pre.currentPosition + 1)
          /\ last.pre.currentPosition + 1 \in 1..total
    /\ ~CorrectKey => Count(last.out, "konami-progress") = 0
    /\ \A i \in DOMAIN log :
          IsProgress(log[i]) =>
              /\ log[i].detail[1].total = total
              /\ log[i].detail[1].position \in 1..total
              /\ \/ log[i].detail[1].position = 1
                 \/ i = 1
                 \/ log[i - 1] = ProgressEvent(log[i].detail[1].position - 1)

\* the third correct key of an attempt
C10_Witness ==
    /\ CorrectKey
    /\ last.pre.currentPosition = 2
    /\ Len(log) >= 3
    /\ log[Len(log)] = ProgressEvent(3)

ActivatedEvent == [type |-> "konami-activated", detail |-> <<>>]

\* in q, every konami-activated but a first one comes right after the
\* konami-progress with position = total
ActivatedFollowsLastProgress(q) ==
    \A i \in DOMAIN q :
        (q[i] = ActivatedEvent /\ i > 1) => q[i - 1] = ProgressEvent(total)

\* C11: the key that completes the sequence dispatches konami-progress with
\* position = total first and konami-activated right after it; no other
\* operation dispatches konami-activated, and every konami-activated is
\* dispatched right after such a konami-progress.
C11_ProgressBeforeActivated ==
    /\ FinalKey =>
          /\ Len(last.out) >= 2
          /\ last.out[1] = ProgressEvent(total)
          /\ last.out[2] = ActivatedEvent
          /\ Count(last.out, "konami-activated") = 1
    /\ ~FinalKey => Count(last.out, "konami-activated") = 0
    /\ last.out # <<>> => last.out[1] # ActivatedEvent
    /\ ActivatedFollowsLastProgress(last.out)
    /\ ActivatedFollowsLastProgress(log)

\* the last of the ten default keys has been handled
C11_Witness ==
    /\ FinalKey
    /\ code = DefaultCode
    /\ Len(log) >= 3
    /\ log[Len(log) - 1] = ActivatedEvent

\* C12 (as claimed): reading the getters changes neither cursor nor timer
\* nor subscription and dispatches nothing, and nextExpectedKey returns the
\* element of the sequence at index progress, a key of the sequence.
C12_QueriesPure ==
    last.op = "query" =>
        /\ currentPosition = last.pre.currentPosition
        /\ timeoutRef = last.pre.timeoutRef
        /\ timers = last.pre.timers
        /\ listening = last.pre.listening
        /\ last.out = <<>>
        /\ last.key = codeAt(progress)
        /\ last.key \in Range(code)

\* C17 (as claimed): the cursor is in 0..N, and whenever a key event, a
\* timer callback, an attach or a detach begins, also a detach called by a
\* listener, the cursor is below N.
C17_CursorBelowTotal ==
    /\ currentPosition \in 0..Len(code)
    /\ last.op # "new" => last.pre.currentPosition < Len(code)
    /\ \A i \in DOMAIN last.detached : last.detached[i].cursor < Len(code)

\* C18: at most one timer is pending, the one timeoutRef names, and the
\* timer that fires is that one.
C18_OneTimer ==
    /\ Cardinality(timers) <= 1
    /\ \A t \in timers : t.id = timeoutRef
    /\ TimedOut =>
          /\ Cardinality(last.pre.timers) = 1
          /\ \A t \in last.pre.timers : t.id = last.pre.timeoutRef /\ t.left = 0

\* a correct key has replaced a timer that had run for a while
C18_Witness ==
    /\ CorrectKey
    /\ \E t \in last.pre.timers : t.left < timeout
    /\ timers = {[id |-> timeoutRef, left |-> timeout]}

\* C19: while a timer is pending the cursor is above 0, and every timer
\* that fires dispatches exactly one konami-reset.
C19_TimerImpliesProgress ==
    /\ timers # {} => currentPosition > 0
    /\ TimedOut =>
          /\ last.pre.currentPosition > 0
          /\ last.out = << ResetEvent >>

\* a timer has fired
C19_Witness ==
    /\ TimedOut
    /\ last.pre.timers # {}
    /\ currentPosition = 0

\* C20 (as claimed): once a listener has called hostDisconnected during an
\* operation, that operation dispatches nothing more.
C20_NothingAfterListenerDetach ==
    \A i \in DOMAIN last.detached : Len(last.out) = last.detached[i].at

\* the timer a correct key that does not complete the sequence leaves on
\* an attached controller runs for ms
SchedulesWith(ms) ==
    (CorrectKey /\ ~FinalKey /\ listening) =>
        timers = {[id |-> timeoutRef, left |-> ms]}

TenKeys ==
    << "ArrowUp", "ArrowUp", "ArrowDown", "ArrowDown",
       "ArrowLeft", "ArrowRight", "ArrowLeft", "ArrowRight", "b", "a" >>

SequenceAsClaimed ==
    /\ ~options.hasCode => (code = TenKeys /\ total = 10)
    /\ options.hasCode => (code = options.code /\ total = Len(options.code))

\* C16 (as claimed): without a sequence the controller matches the ten
\* keys, a supplied sequence is used as given; without a timeout every
\* timer is scheduled with 2000 ms, a supplied timeout is used as given.
C16_DefaultsAsClaimed ==
    /\ SequenceAsClaimed
    /\ ~options.hasTimeout => SchedulesWith(2000)
    /\ options.hasTimeout => SchedulesWith(options.timeout)

\* C16 (amended): as above, but a supplied timeout of 0 is replaced by
\* 2000 ms like a missing one; any other supplied timeout is used as given.
C16_Defaults ==
    /\ SequenceAsClaimed
    /\ (~options.hasTimeout \/ options.timeout = 0) => SchedulesWith(2000)
    /\ (options.hasTimeout /\ options.timeout # 0) => SchedulesWith(options.timeout)

\* a controller constructed with timeout 0 and no sequence has scheduled
\* its timer
C16_Witness ==
    /\ options.hasTimeout /\ options.timeout = 0
    /\ ~options.hasCode
    /\ CorrectKey /\ ~FinalKey /\ listening
    /\ timers # {}

\* a key of the in-order delivery under way has just been handled
FeedKey == KeyHandled /\ feed.n >= 1 /\ last.detached = <<>>

\* C21: after a wrong key, a timeout and the key that completes the
\* sequence the cursor is 0 and no timer is pending, as on a controller that
\* was just attached; whatever came before, the n-th key of an in-order
\* delivery that started at cursor 0 dispatches exactly one konami-progress,
\* with position n, the last one also exactly one konami-activated right
\* after it, and the earlier ones none.
C21_ResetIsFresh ==
    /\ (WrongKey \/ TimedOut \/ FinalKey) => (currentPosition = 0 /\ timers = {})
    /\ FeedKey =>
          /\ last.out # <<>>
          /\ last.out[1] = ProgressEvent(feed.n)
          /\ Count(last.out, "konami-progress") = 1
          /\ IF feed.n = Len(code)
             THEN /\ Len(last.out) >= 2
                  /\ last.out[2] = ActivatedEvent
                  /\ Count(last.out, "konami-activated") = 1
                  /\ feed.activated = 1
                  /\ currentPosition = 0
             ELSE /\ Count(last.out, "konami-activated") = 0
                  /\ feed.activated = 0

\* the whole sequence has been delivered again right after an activation
\* and its reset
C21_Witness ==
    /\ FeedKey
    /\ feed.n = Len(code)
    /\ Len(log) = MaxLog
    /\ log[1] = ResetEvent
    /\ log[2] = ProgressEvent(1)

\* C22: a wrong key at cursor > 0 leaves the cursor at 0 and dispatches no
\* konami-progress, also when it is the first key of the sequence.
C22_WrongKeyStartsNothing ==
    (WrongKey /\ last.pre.currentPosition > 0) =>
        /\ currentPosition = 0
        /\ Count(last.out, "konami-progress") = 0

\* the first key of the sequence arrived where another key was expected
C22_Witness ==
    /\ WrongKey
    /\ last.pre.currentPosition > 0
    /\ last.key = codeAt(0)
    /\ currentPosition = 0

\* hostDisconnected and hostConnected called as operations of their own,
\* and whatever happens while the controller is detached, leave the cursor
\* as it was; hostDisconnected leaves no timer pending and no subscription,
\* hostConnected leaves the timers as they were.
DetachFrame ==
    /\ last.op = "hostDisconnected" =>
          /\ currentPosition = last.pre.currentPosition
          /\ timers = {}
          /\ ~listening
          /\ last.out = <<>>
    /\ last.op = "hostConnected" =>
          /\ currentPosition = last.pre.currentPosition
          /\ timers = last.pre.timers
          /\ timeoutRef = last.pre.timeoutRef
          /\ listening
    /\ (last.op # "new" /\ ~last.pre.listening) =>
          /\ currentPosition = last.pre.currentPosition
          /\ last.pre.timers = {}
    /\ ~listening => timers = {}

\* C23 (as claimed): hostDisconnected cancels the pending timer, removes
\* the subscription and leaves the cursor unchanged, hostConnected changes
\* neither cursor nor timer, and the cursor at the moment of a detach, also
\* of one a listener makes, is still the cursor when the operation is over
\* and so the one the first key after re-attach meets.
C23_DetachKeepsCursor ==
    /\ DetachFrame
    /\ \A i \in DOMAIN last.detached :
          currentPosition = last.detached[i].cursor /\ timers = {}

\* an attempt is under way on an attached controller and the last thing
\* that happened was not a key event
AttemptIdle == listening /\ currentPosition > 0 /\ last.op # "keydown"

\* the attempt is over, or a key event has arrived, or the controller has
\* been detached
AttemptEnded == currentPosition = 0 \/ last.op = "keydown" \/ ~listening

\* C24 (as claimed): from every state in which the controller is attached
\* with cursor > 0, unless a key event arrives or the controller is
\* detached, the cursor returns to 0 (through reset(), which dispatches
\* konami-reset from a cursor > 0), timers firing when they are due.
C24_AttemptTimesOut == AttemptIdle ~> AttemptEnded

\* the same for the attempts that have their timer pending
PendingAttemptTimesOut == (AttemptIdle /\ timers # {}) ~> AttemptEnded

\* C25 (as claimed): the getters a listener reads while a notification is
\* delivered to it give progress < total and a nextExpectedKey that is a
\* key of the sequence.
C25_QueriesDuringDelivery ==
    \A i \in DOMAIN last.queried :
        /\ last.queried[i].progress < total
        /\ last.queried[i].nextExpectedKey \in Range(code)

\* the same for the notifications of the keys before the last one, of wrong
\* keys and of timeouts
QueriesDuringOtherDeliveries ==
    (~FinalKey /\ Len(code) > 0) =>
        \A i \in DOMAIN last.queried :
            /\ last.queried[i].progress < total
            /\ last.queried[i].nextExpectedKey \in Range(code)

(***************************************************************************)
(* Specification of the konami-demo element                                *)
(***************************************************************************)
DemoInit ==
    /\ options = DemoOptions
    /\ code = constructorCode(options)
    /\ timeout = constructorTimeout(options)
    /\ currentPosition = 0
    /\ timeoutRef = NoRef
    /\ listening = FALSE
    /\ timers = {}
    /\ log = <<>>
    /\ last = [op |-> "new", key |-> NoKey, repeat |-> FALSE,
               pre |-> [currentPosition |-> 0, timeoutRef |-> NoRef,
                        listening |-> FALSE, timers |-> {}],
               out |-> <<>>, detached |-> <<>>, queried |-> <<>>]
    /\ feed = NoFeed
    /\ reveal = NewReveal
    /\ rlast = ROp("new", NoKey, FALSE, NewReveal, NewReveal)
    /\ demo = NewDemo
    /\ dlast = DOp("new", NoKey, FALSE, NewDemo, <<>>)

DemoConnected ==
    /\ ~demo.connected
    /\ DCommit("connectedCallback", NoKey, FALSE, demo_connectedCallback(demo), <<>>)

DemoDisconnected ==
    /\ demo.connected
    /\ DCommit("disconnectedCallback", NoKey, FALSE, demo_disconnectedCallback(demo), <<>>)

\* window dispatches a keydown event.
DemoKeydown ==
    \E k \in Keys, r \in BOOLEAN :
      LET s == IF demo.listening
               THEN handleKeydown(demo_konami(demo), [key |-> k, repeat |-> r])
               ELSE demo_konami(demo)
      IN  DCommit("keydown", k, r, demo_konamiRan(demo, s), s.out)

\* The user presses Try Again, the button shown while activated is set.
DemoTryAgain ==
    /\ demo.connected
    /\ demo.activated
    /\ DCommit("reset", NoKey, FALSE, demo_reset(demo), <<>>)

DemoTick ==
    /\ demo.timers \cup demo.feedbackTimeout # {}
    /\ \A t \in demo.timers \cup demo.feedbackTimeout : t.left > 0
    /\ LET d == Min({TickStep} \cup {t.left : t \in demo.timers \cup demo.feedbackTimeout})
       IN DCommit("tick", NoKey, FALSE,
                  [demo EXCEPT !.timers = {[t EXCEPT !.left = @ - d] : t \in @},
                               !.feedbackTimeout = {[t EXCEPT !.left = @ - d] : t \in @}],
                  <<>>)

\* The controller's expired timer runs reset().
DemoTimerFire ==
    \E t \in demo.timers :
      /\ t.left = 0
      /\ LET s == reset([demo_konami(demo) EXCEPT !.timers = @ \ {t}])
         IN DCommit("timeout", NoKey, FALSE, demo_konamiRan(demo, s), s.out)

\* The expired feedback timer runs its callback.
DemoFeedbackFire ==
    \E t \in demo.feedbackTimeout :
      /\ t.left = 0
      /\ DCommit("feedbackTimeout", NoKey, FALSE,
                 demo_feedbackExpired([demo EXCEPT !.feedbackTimeout = {}], t.type),
                 <<>>)

DemoNext ==
    \/ DemoConnected
    \/ DemoDisconnected
    \/ DemoKeydown
    \/ DemoTryAgain
    \/ DemoTick
    \/ DemoTimerFire
    \/ DemoFeedbackFire

DemoSpec == DemoInit /\ [][DemoNext]_vars

(***************************************************************************)
(* Claims about the konami-reveal element                                  *)
(***************************************************************************)
\* a controller of the element dispatched konami-activated during the
\* last key event
RevealCompleted ==
    rlast.op = "keydown" /\ Count(rlast.seen, "konami-activated") > 0

\* C13: activated is false on a new konami-reveal element; it is true after
\* a key event that completed the sequence, and after a konami-activated
\* event dispatched on the connected element; once true it is true after
\* every operation other than reset(): key events, timeouts, progress and
\* reset notifications, disconnection and reconnection.
C13_ActivatedUntilReset ==
    /\ rlast.op = "new" => ~reveal.activated
    /\ RevealCompleted => reveal.activated
    /\ (rlast.pre.subscribed /\ Count(rlast.seen, "konami-activated") > 0)
          => reveal.activated
    /\ (rlast.pre.activated /\ rlast.op # "reset") => reveal.activated

\* a timeout's konami-reset has reached the element after its activation
C13_Witness ==
    /\ rlast.op = "timeout"
    /\ rlast.pre.activated
    /\ Count(rlast.seen, "konami-reset") > 0
    /\ reveal.activated

\* C14: reset() of the element leaves activated false and everything else
\* as it was: each controller's cursor, timer reference and subscription,
\* the pending timers and the element's connection; it dispatches no event.
C14_RevealResetFrame ==
    rlast.op = "reset" =>
        /\ ~reveal.activated
        /\ reveal = [rlast.pre EXCEPT !.activated = FALSE]
        /\ rlast.seen = <<>>

\* reset() was called on an activated element whose controller is part-way
\* through the sequence with its timer pending
C14_Witness ==
    /\ rlast.op = "reset"
    /\ rlast.pre.activated
    /\ reveal.timers # {}
    /\ \E i \in DOMAIN reveal.controllers :
          reveal.controllers[i].currentPosition > 0 /\ reveal.controllers[i].listening

Forwarded == {"konami-progress", "konami-reset"}

\* Among the events q dispatched on the element during one operation, each
\* composed = false progress or reset event is directly followed by its
\* copy (same name, bubbles and composed true, same detail for progress),
\* and a composed = true event is either such a copy or the event the page
\* dispatched itself.
Redispatch(q) ==
    /\ \A i \in DOMAIN q :
          (q[i].type \in Forwarded /\ ~q[i].composed) =>
              /\ i + 1 \in DOMAIN q
              /\ q[i + 1].type = q[i].type
              /\ q[i + 1].bubbles /\ q[i + 1].composed
              /\ q[i].type = "konami-progress" => q[i + 1].detail = q[i].detail
    /\ \A j \in DOMAIN q :
          q[j].composed =>
              \/ j = 1 /\ rlast.op = "dispatchEvent"
              \/ /\ j > 1
                 /\ q[j].type \in Forwarded
                 /\ q[j - 1].type = q[j].type
                 /\ ~q[j - 1].composed

\* C15 as claimed: every composed = false konami-progress or konami-reset
\* event dispatched on a konami-reveal element is followed by exactly one
\* copy with bubbles and composed true (same detail for progress), the
\* copy is not copied again and the dispatch terminates.
C15_RedispatchAlways ==
    Redispatch(rlast.seen) /\ ~reveal.overflow

\* C15 amended: the same, for events dispatched on the element while it is
\* connected; a disconnected element has removed its listeners and copies
\* nothing.
C15_RedispatchWhileConnected ==
    rlast.pre.subscribed => (Redispatch(rlast.seen) /\ ~reveal.overflow)

\* a key completed the sequence: the progress and the reset notification
\* were both copied
C15_Witness ==
    /\ rlast.op = "keydown"
    /\ \E i, j \in DOMAIN rlast.seen :
          /\ rlast.seen[i].type = "konami-progress" /\ rlast.seen[i].composed
          /\ rlast.seen[j].type = "konami-reset" /\ rlast.seen[j].composed

\* the controllers of the element that are subscribed to keydown
Subscribed == {i \in DOMAIN reveal.controllers : reveal.controllers[i].listening}

\* the events of that name the controllers dispatched on the element
\* during the last operation
FromControllers(type) ==
    {i \in DOMAIN rlast.seen : rlast.seen[i].type = type /\ ~rlast.seen[i].composed}

\* at most one controller is subscribed, a key event makes the controllers
\* dispatch at most one konami-progress and at most one konami-activated
OneController ==
    /\ Cardinality(Subscribed) <= 1
    /\ rlast.op = "keydown" =>
          /\ Cardinality(FromControllers("konami-progress")) <= 1
          /\ Cardinality(FromControllers("konami-activated")) <= 1

\* C26 (as claimed): a konami-reveal element has at most one controller
\* subscribed to keydown, also after it was disconnected and connected
\* again; one key event causes at most one konami-progress from a
\* controller and at most one konami-activated.
C26_OneSubscribedController == OneController

\* the same for an element that was connected once
OneControllerUntilReconnected ==
    Len(reveal.controllers) <= 1 => OneController

(***************************************************************************)
(* Claims about the konami-demo element                                    *)
(***************************************************************************)
\* the key that completed the sequence has been handled by the demo's
\* controller and its notifications by the demo
DemoCompleted ==
    dlast.op = "keydown" /\ Count(dlast.out, "konami-activated") > 0

\* C27 (as claimed): once the notifications of the key that completes the
\* sequence have been handled, the demo is activated and shows the success
\* feedback: feedbackType and containerState are 'success'.
C27_SuccessFeedbackStays ==
    DemoCompleted =>
        /\ demo.activated
        /\ demo.feedbackType = "success"
        /\ demo.containerState = "success"

\* what the demo shows then: activated, with the feedback of a timeout
FeedbackAfterCompletion ==
    DemoCompleted =>
        /\ demo.activated
        /\ demo.showFeedback
        /\ demo.feedbackType = "timeout"
        /\ demo.containerState = "timeout"
        /\ dlast.out[Len(dlast.out)] = ResetEvent

\* C28 (as claimed): after every key event, timeout and press of Try Again
\* the progress the demo displays is the progress of its controller.
C28_DisplayedProgress ==
    dlast.op \in {"keydown", "timeout", "reset"} =>
        demo.progress = demo.currentPosition

\* the same after key events and timeouts when Try Again has not been
\* pressed during an attempt: the notifications alone keep the two equal
ProgressFollowsNotifications ==
    (dlast.op \in {"keydown", "timeout"} /\ dlast.pre.progress = dlast.pre.currentPosition)
        => demo.progress = demo.currentPosition

====
